---- MODULE Spec2Model ----
(***************************************************************************)
(* Model of neural_networks/layers.py: the Layer base class, the layer      *)
(* factory and the FullyConnected, Conv2D, Pool2D and Flatten layers.       *)
(*                                                                          *)
(* Spec / SpecLife model one layer object through construction, forward,   *)
(* backward, clear_gradients and forward_with_param.  Tensors are there     *)
(* abstracted to their shape and a tag naming where their value came from;  *)
(* numpy's shape rules (broadcasting, matmul, in-place add, reshape) decide *)
(* which calls raise.  SpecPool, SpecConv, SpecFlat and SpecDims model the  *)
(* numeric kernels on small integer tensors.                                *)
(***************************************************************************)
EXTENDS Integers, Sequences, FiniteSets, TLC

VARIABLES layer, call, ret, forwardCalled, kern

vars == <<layer, call, ret, forwardCalled, kern>>

(***************************************************************************)
(* Bounds of the lifecycle model.                                          *)
(***************************************************************************)
MaxSide == 2
MaxChan == 2
MaxKernel == 2
MaxPad == 1
\* Batch sizes and strides of every model.
Batches == {1, 2}
Strides == {1, 2}

(***************************************************************************)
(* Python values.                                                          *)
(***************************************************************************)
\* None is the empty tuple, an integer k is <<k>>.
None == <<>>
Some(k) == <<k>>

\* A tensor is its shape and a tag for its contents.
Tensor(shape, val) == [shape |-> shape, val |-> val]
NoTensor == Tensor(<<>>, "none")
\* The empty Python list [] the caches start with.
EmptyList == Tensor(<<>>, "list")
IsList(t) == t.val = "list"

\* An empty dict.
EmptyDict == [k \in {} |-> NoTensor]
Dict2(k1, v1, k2, v2) == [k \in {k1, k2} |-> IF k = k1 THEN v1 ELSE v2]
DictSet(d, k, v) == [x \in DOMAIN d \cup {k} |-> IF x = k THEN v ELSE d[x]]

\* A shape numpy rejects.
BadShape == <<-1>>

Max2(a, b) == IF a >= b THEN a ELSE b

\* numpy broadcasting of two shapes (right aligned; 1 stretches).
Broadcast(s, t) ==
    LET n == Max2(Len(s), Len(t))
        ds(i) == IF i > n - Len(s) THEN s[i - (n - Len(s))] ELSE 1
        dt(i) == IF i > n - Len(t) THEN t[i - (n - Len(t))] ELSE 1
        ok == \A i \in 1..n : ds(i) = dt(i) \/ ds(i) = 1 \/ dt(i) = 1
    IN  IF s = BadShape \/ t = BadShape \/ ~ok THEN BadShape
        ELSE [i \in 1..n |-> IF ds(i) = 1 THEN dt(i) ELSE ds(i)]

\* a += b on an array of shape s: b must broadcast to s itself.
InPlaceAddOk(s, t) == Broadcast(s, t) = s

\* A @ B for two matrices.
MatMul(s, t) ==
    IF Len(s) = 2 /\ Len(t) = 2 /\ s[2] = t[1] THEN <<s[1], t[2]>> ELSE BadShape

Transpose(s) == [i \in 1..Len(s) |-> s[Len(s) + 1 - i]]

RECURSIVE Prod(_)
Prod(s) == IF s = <<>> THEN 1 ELSE s[1] * Prod(Tail(s))

\* int(a / stride + 1): Python's int() truncates towards zero.
OutSizeNoPlusOne(a, stride) ==
    IF a >= 0 THEN a \div stride ELSE -((-a) \div stride)
OutSize(a, stride) ==
    LET n == a + stride
    IN  IF n >= 0 THEN n \div stride ELSE -((-n) \div stride)

\* x.reshape(target) where target may hold one -1; BadShape when numpy raises.
Reshape(shape, target) ==
    LET n == Prod(shape)
        holes == {i \in 1..Len(target) : target[i] = -1}
        known == Prod([i \in 1..Len(target) |-> IF target[i] = -1 THEN 1 ELSE target[i]])
    IN  IF holes = {}
        THEN IF known = n THEN target ELSE BadShape
        ELSE IF Cardinality(holes) = 1 /\ known > 0 /\ n % known = 0
             THEN [i \in 1..Len(target) |-> IF target[i] = -1 THEN n \div known ELSE target[i]]
             ELSE BadShape

(***************************************************************************)
(* The layer object.                                                       *)
(***************************************************************************)
LayerNames == {"fully_connected", "conv2d", "pool2d", "flatten"}

\* A padding mode: "same", "valid", an integer, any other string, or the
\* resolved pair of integers.
PadMode(kind, p) == [kind |-> kind, p |-> p]
PadModes ==
    {PadMode("same", <<>>), PadMode("valid", <<>>), PadMode("other", <<>>)}
    \cup {PadMode("int", <<n>>) : n \in 0..MaxPad}
PoolModes == {"max", "average", "other"}
KeepDims == {"first", "last", "-1"}
WeightVals == {"r1", "r2"}

NoLayer ==
    [kind |-> "none", n_in |-> None, n_out |-> None, kernel_shape |-> <<>>,
     stride |-> None, pad |-> PadMode("none", <<>>), mode |-> "none",
     keep_dim |-> "none", parameters |-> EmptyDict, cache |-> EmptyDict,
     gradients |-> EmptyDict]

\* What a call hands back: the layer after it, and the value returned or the
\* exception raised (err = "none": a normal return).
Ret(err, out, usedW, usedb) == [err |-> err, out |-> out, usedW |-> usedW, usedb |-> usedb]
NoRet == Ret("none", NoTensor, "none", "none")
Raise(l, err) == [layer |-> l, ret |-> Ret(err, NoTensor, "none", "none")]
Return(l, out) == [layer |-> l, ret |-> Ret("none", out, "none", "none")]
ReturnY(l, out, W, b) == [layer |-> l, ret |-> Ret("none", out, W.val, b.val)]

\* the padding mode resolved to a pair, or "other".
ResolvePad(pad, kernel_shape) ==
    IF pad.kind = "same"
    THEN PadMode("pair", <<(kernel_shape[1] - 1) \div 2, (kernel_shape[2] - 1) \div 2>>)
    ELSE IF pad.kind = "valid" THEN PadMode("pair", <<0, 0>>)
    ELSE IF pad.kind = "int" THEN PadMode("pair", <<pad.p[1], pad.p[1]>>)
    ELSE PadMode("other", <<>>)

FullyConnectedNew(n_out) ==
    [NoLayer EXCEPT !.kind = "fully_connected", !.n_out = Some(n_out)]

Conv2DNew(n_out, kernel_shape, stride, pad) ==
    [NoLayer EXCEPT !.kind = "conv2d", !.n_out = Some(n_out),
                    !.kernel_shape = kernel_shape, !.stride = Some(stride), !.pad = pad]

Pool2DCache ==
    [k \in {"out_rows", "out_cols", "X_pad", "p", "pool_shape"} |-> EmptyList]

Pool2DNew(kernel_shape, mode, stride, pad) ==
    LET rp == ResolvePad(pad, kernel_shape)
    IN  IF rp.kind = "other" THEN Raise(NoLayer, "ValueError: invalid Pad mode")
        ELSE Return([NoLayer EXCEPT !.kind = "pool2d", !.kernel_shape = kernel_shape,
                                    !.stride = Some(stride), !.pad = rp, !.mode = mode,
                                    !.cache = Pool2DCache], NoTensor)

FlattenNew(keep_dim) ==
    [NoLayer EXCEPT !.kind = "flatten", !.keep_dim = keep_dim,
                    !.cache = [k \in {"in_dims"} |-> EmptyList]]

initialize_layer(name, n_out, kernel_shape, stride, pad, mode, keep_dim) ==
    IF name = "fully_connected" THEN Return(FullyConnectedNew(n_out), NoTensor)
    ELSE IF name = "conv2d" THEN Return(Conv2DNew(n_out, kernel_shape, stride, pad), NoTensor)
    ELSE IF name = "pool2d" THEN Pool2DNew(kernel_shape, mode, stride, pad)
    ELSE IF name = "flatten" THEN Return(FlattenNew(keep_dim), NoTensor)
    ELSE Raise(NoLayer, "NameError: NotimplementedError")

(***************************************************************************)
(* Layer.clear_gradients and the activation capability.                    *)
(***************************************************************************)
clear_gradients(l) ==
    Return([l EXCEPT !.cache = [a \in DOMAIN l.cache |-> EmptyList],
                     !.gradients = [a \in DOMAIN l.gradients |->
                                       Tensor(l.gradients[a].shape, "zeros")]],
           NoTensor)

\* activation(Z): elementwise, so of Z's shape.
Activation(Zs) == Zs
\* activation.backward(Z, dLdY): the elementwise chain-rule product.
ActivationBackward(Zs, dYs) == Broadcast(Zs, dYs)

\* The guard of the lazy initialization in forward.
NeedsInitAlways(l) == TRUE
NeedsInit(l) == l.n_in = None

(***************************************************************************)
(* FullyConnected.                                                         *)
(***************************************************************************)
FullyConnectedInit(l, X_shape, w) ==
    LET n_in == X_shape[2]
        W == Tensor(<<n_in, l.n_out[1]>>, w)
        b == Tensor(<<1, l.n_out[1]>>, "zeros")
    IN  [l EXCEPT !.n_in = Some(n_in),
                  !.parameters = Dict2("W", W, "b", b),
                  !.cache = Dict2("Z", EmptyList, "X", EmptyList),
                  !.gradients = Dict2("W", Tensor(W.shape, "zeros"),
                                      "b", Tensor(b.shape, "zeros"))]

FullyConnectedForward(l, X, w) ==
    LET l1 == IF NeedsInit(l) THEN FullyConnectedInit(l, X.shape, w) ELSE l
    IN  IF ~({"W", "b"} \subseteq DOMAIN l1.parameters) THEN Raise(l1, "KeyError")
        ELSE LET W == l1.parameters["W"]
                 b == l1.parameters["b"]
                 Zs == Broadcast(MatMul(X.shape, W.shape), b.shape)
             IN  IF Zs = BadShape THEN Raise(l1, "ValueError: shapes not aligned")
                 ELSE ReturnY([l1 EXCEPT !.cache = DictSet(DictSet(l1.cache, "Z", Tensor(Zs, "Z")),
                                                            "X", X)],
                              Tensor(Activation(Zs), "Y"), W, b)

FullyConnectedBackward(l, dLdY) ==
    IF ~({"W", "b"} \subseteq DOMAIN l.parameters) THEN Raise(l, "KeyError")
    ELSE IF ~({"X", "Z"} \subseteq DOMAIN l.cache) THEN Raise(l, "KeyError")
    ELSE LET W == l.parameters["W"]
             X == l.cache["X"]
             Z == l.cache["Z"]
         IN  IF IsList(Z) \/ IsList(X) THEN Raise(l, "AttributeError: list")
             ELSE LET dZ == ActivationBackward(Z.shape, dLdY.shape)
                      dX == MatMul(dZ, Transpose(W.shape))
                      dW == MatMul(Transpose(X.shape), dZ)
                  IN  IF dZ = BadShape \/ Len(dZ) # 2 \/ dX = BadShape \/ dW = BadShape
                      THEN Raise(l, "ValueError: shapes not aligned")
                      ELSE Return([l EXCEPT !.gradients =
                                       DictSet(DictSet(l.gradients, "W", Tensor(dW, "dW")),
                                               "b", Tensor(<<1, dZ[2]>>, "dB"))],
                                  Tensor(dX, "dX"))

(***************************************************************************)
(* Conv2D.                                                                 *)
(***************************************************************************)
\* _init_parameters: everything is assigned before the padding mode is looked
\* at, so a ValueError leaves n_in, parameters, cache and gradients set.
Conv2DInit(l, X_shape, w) ==
    LET n_in == X_shape[4]
        W_shape == l.kernel_shape \o <<n_in>> \o <<l.n_out[1]>>
        W == Tensor(W_shape, w)
        b == Tensor(<<1, l.n_out[1]>>, "zeros")
        l1 == [l EXCEPT !.n_in = Some(n_in),
                        !.parameters = Dict2("W", W, "b", b),
                        !.cache = Dict2("Z", EmptyList, "X", EmptyList),
                        !.gradients = Dict2("W", Tensor(W.shape, "zeros"),
                                            "b", Tensor(b.shape, "zeros"))]
        rp == ResolvePad(l.pad, W_shape)
    IN  IF rp.kind = "other" THEN Raise(l1, "ValueError: invalid Pad mode")
        ELSE Return([l1 EXCEPT !.pad = rp], NoTensor)

\* The shape the window product and bias add of one loop step need; both are
\* the same at every step, so the first step decides.
Conv2DStepOk(B, kh, kw, Cx, W, b) ==
    /\ Broadcast(<<B, kh, kw, Cx>>, <<W.shape[1], W.shape[2], W.shape[3]>>) # BadShape
    /\ Len(b.shape) = 2
    /\ b.shape[2] >= W.shape[4]
    /\ InPlaceAddOk(<<B>>, <<b.shape[1]>>)

Conv2DForwardBody(l, X) ==
    IF ~({"W", "b"} \subseteq DOMAIN l.parameters) THEN Raise(l, "KeyError")
    ELSE LET W == l.parameters["W"]
             b == l.parameters["b"]
         IN  IF Len(W.shape) # 4 THEN Raise(l, "ValueError: unpack W.shape")
             ELSE IF l.pad.kind # "pair" THEN Raise(l, "TypeError: pad is a string")
             ELSE LET kh == W.shape[1]
                      kw == W.shape[2]
                      out_channels == W.shape[4]
                      B == X.shape[1]
                      out_rows == OutSize(X.shape[2] + 2 * l.pad.p[1] - kh, l.stride[1])
                      out_cols == OutSize(X.shape[3] + 2 * l.pad.p[2] - kw, l.stride[1])
                      Zs == <<B, out_rows, out_cols, out_channels>>
                  IN  IF out_rows < 0 \/ out_cols < 0
                      THEN Raise(l, "ValueError: negative dimensions")
                      ELSE IF out_rows > 0 /\ out_cols > 0
                              /\ ~Conv2DStepOk(B, kh, kw, X.shape[4], W, b)
                      THEN Raise(l, "ValueError: operands could not be broadcast")
                      ELSE ReturnY([l EXCEPT !.cache =
                                        DictSet(DictSet(l.cache, "Z", Tensor(Zs, "Z")), "X", X)],
                                   Tensor(Activation(Zs), "Y"), W, b)

Conv2DForward(l, X, w) ==
    IF NeedsInit(l)
    THEN LET i == Conv2DInit(l, X.shape, w)
         IN  IF i.ret.err # "none" THEN i ELSE Conv2DForwardBody(i.layer, X)
    ELSE Conv2DForwardBody(l, X)

\* dZ[:, row:row+1, col:col+1, np.newaxis, channel] over the loop: a slice
\* beyond the array is empty (at the last row or column when dZ is too small),
\* an index beyond it raises.
DZSlice(dZ, out_rows, out_cols) ==
    <<dZ[1], IF dZ[2] >= out_rows THEN 1 ELSE 0, IF dZ[3] >= out_cols THEN 1 ELSE 0, 1>>

Conv2DBackward(l, dLdY) ==
    IF ~({"W", "b"} \subseteq DOMAIN l.parameters) THEN Raise(l, "KeyError")
    ELSE IF ~({"X", "Z"} \subseteq DOMAIN l.cache) THEN Raise(l, "KeyError")
    ELSE LET W == l.parameters["W"]
             X == l.cache["X"]
             Z == l.cache["Z"]
         IN  IF IsList(Z) \/ IsList(X) THEN Raise(l, "AttributeError: list")
             ELSE IF Len(W.shape) # 4 THEN Raise(l, "ValueError: unpack W.shape")
             ELSE IF l.pad.kind # "pair" THEN Raise(l, "TypeError: pad is a string")
             ELSE LET dZ == ActivationBackward(Z.shape, dLdY.shape)
                      kh == W.shape[1]
                      kw == W.shape[2]
                      B == X.shape[1]
                      Cx == X.shape[4]
                      out_rows == OutSize(X.shape[2] + 2 * l.pad.p[1] - kh, l.stride[1])
                      out_cols == OutSize(X.shape[3] + 2 * l.pad.p[2] - kw, l.stride[1])
                      loops == out_rows > 0 /\ out_cols > 0
                  IN  IF dZ = BadShape \/ Len(dZ) # 4
                      THEN Raise(l, "ValueError: operands could not be broadcast")
                      ELSE IF loops /\ dZ[4] < W.shape[4]
                      THEN Raise(l, "IndexError")
                      ELSE IF loops
                              /\ ~InPlaceAddOk(<<B, kh, kw, Cx>>,
                                     Broadcast(<<1, kh, kw, W.shape[3]>>, DZSlice(dZ, out_rows, out_cols)))
                      THEN Raise(l, "ValueError: non-broadcastable output operand")
                      ELSE IF loops
                              /\ ~InPlaceAddOk(<<kh, kw, W.shape[3]>>,
                                     Tail(Broadcast(<<B, kh, kw, Cx>>, DZSlice(dZ, out_rows, out_cols))))
                      THEN Raise(l, "ValueError: non-broadcastable output operand")
                      ELSE Return([l EXCEPT !.gradients =
                                       DictSet(DictSet(l.gradients, "W", Tensor(W.shape, "dW")),
                                               "b", Tensor(<<1, dZ[4]>>, "dB"))],
                                  Tensor(X.shape, "dX"))

(***************************************************************************)
(* Pool2D.                                                                 *)
(***************************************************************************)
Pool2DOutShape(l, X_shape) ==
    <<X_shape[1],
      OutSize(X_shape[2] + 2 * l.pad.p[1] - l.kernel_shape[1], l.stride[1]),
      OutSize(X_shape[3] + 2 * l.pad.p[2] - l.kernel_shape[2], l.stride[1]),
      X_shape[4]>>

\* pool_fn is bound only for "max" and "average": with any other mode the
\* first loop step raises UnboundLocalError.
Pool2DForward(l, X) ==
    LET Ys == Pool2DOutShape(l, X.shape)
    IN  IF Ys[2] < 0 \/ Ys[3] < 0 THEN Raise(l, "ValueError: negative dimensions")
        ELSE IF Ys[2] > 0 /\ Ys[3] > 0 /\ l.mode \notin {"max", "average"}
        THEN Raise(l, "UnboundLocalError: pool_fn")
        ELSE Return([l EXCEPT !.cache = DictSet(l.cache, "X", X)], Tensor(Ys, "Y"))

Pool2DBackward(l, dLdY) ==
    IF ~({"out_rows", "out_cols", "X"} \subseteq DOMAIN l.cache) THEN Raise(l, "KeyError")
    ELSE LET X == l.cache["X"]
         IN  IF IsList(X) THEN Raise(l, "AttributeError: list")
             ELSE LET Ys == Pool2DOutShape(l, X.shape)
                      kh == l.kernel_shape[1]
                      kw == l.kernel_shape[2]
                      dYs == <<dLdY.shape[1], IF dLdY.shape[2] >= Ys[2] THEN 1 ELSE 0,
                               IF dLdY.shape[3] >= Ys[3] THEN 1 ELSE 0, dLdY.shape[4]>>
                  IN  IF Ys[2] > 0 /\ Ys[3] > 0 /\ l.mode \in {"max", "average"}
                         /\ ~InPlaceAddOk(<<X.shape[1], kh, kw, X.shape[4]>>, dYs)
                      THEN Raise(l, "ValueError: non-broadcastable output operand")
                      ELSE Return(l, Tensor(X.shape, "dX"))

(***************************************************************************)
(* Flatten.                                                                *)
(***************************************************************************)
FlattenTarget(keep_dim, X_shape) ==
    IF keep_dim = "-1" THEN <<1, -1>>
    ELSE IF keep_dim = "first" THEN <<X_shape[1], -1>>
    ELSE <<-1, X_shape[Len(X_shape)]>>

\* self.cache["in_dims"] = X.shape, at every forward call.
FlattenCacheOnce(in_dims, X_shape) == IF in_dims = <<>> THEN X_shape ELSE in_dims
FlattenCache(in_dims, X_shape) == X_shape

FlattenForward(l, X) ==
    LET l1 == [l EXCEPT !.cache = DictSet(l.cache, "in_dims",
                   Tensor(FlattenCache(l.cache["in_dims"].shape, X.shape), "dims"))]
        Ys == Reshape(X.shape, FlattenTarget(l.keep_dim, X.shape))
    IN  IF Ys = BadShape THEN Raise(l1, "ValueError: cannot reshape")
        ELSE Return(l1, Tensor(Ys, "Y"))

\* dLdY.reshape(in_dims): in_dims is [] until forward has run, and [] is the
\* shape of a scalar, which an array of one element reshapes to.
FlattenBackward(l, dLdY) ==
    IF "in_dims" \notin DOMAIN l.cache THEN Raise(l, "KeyError")
    ELSE LET dX == Reshape(dLdY.shape, l.cache["in_dims"].shape)
         IN  IF dX = BadShape THEN Raise(l, "ValueError: cannot reshape")
             ELSE Return(l, Tensor(dX, "dX"))

(***************************************************************************)
(* Dispatch on the layer's class, and Layer.forward_with_param.            *)
(***************************************************************************)
Forward(l, X, w) ==
    IF l.kind = "fully_connected" THEN FullyConnectedForward(l, X, w)
    ELSE IF l.kind = "conv2d" THEN Conv2DForward(l, X, w)
    ELSE IF l.kind = "pool2d" THEN Pool2DForward(l, X)
    ELSE FlattenForward(l, X)

Backward(l, dLdY) ==
    IF l.kind = "fully_connected" THEN FullyConnectedBackward(l, dLdY)
    ELSE IF l.kind = "conv2d" THEN Conv2DBackward(l, dLdY)
    ELSE IF l.kind = "pool2d" THEN Pool2DBackward(l, dLdY)
    ELSE FlattenBackward(l, dLdY)

\* inner_forward(param_val) of the closure forward_with_param(param_name, X).
inner_forward(l, param_name, X, param_val, w) ==
    Forward([l EXCEPT !.parameters = DictSet(l.parameters, param_name, param_val)], X, w)

(***************************************************************************)
(* The calls a client makes on one layer.                                  *)
(***************************************************************************)
Call(op, name, X, v) == [op |-> op, name |-> name, X |-> X, v |-> v]
NoCall == Call("none", "none", NoTensor, NoTensor)

Sides == 1..MaxSide
XShapes(kind) ==
    IF kind \in {"conv2d", "pool2d"}
    THEN {<<B, h, h, c>> : B \in Batches, h \in Sides, c \in 1..MaxChan}
    ELSE IF kind = "fully_connected"
    THEN {<<B, c>> : B \in Batches, c \in 1..MaxChan}
    ELSE {<<B, c>> : B \in Batches, c \in 1..MaxChan}
         \cup {<<B, h, c>> : B \in Batches, h \in Sides, c \in 1..MaxChan}

\* The shape of the output of the last forward call that returned, when the
\* cache still holds it.
LastOutShape(l) ==
    IF l.kind \in {"fully_connected", "conv2d"}
    THEN IF "Z" \in DOMAIN l.cache /\ ~IsList(l.cache["Z"]) THEN Some(l.cache["Z"].shape) ELSE None
    ELSE IF l.kind = "pool2d"
    THEN IF "X" \in DOMAIN l.cache /\ ~IsList(l.cache["X"])
         THEN Some(Pool2DOutShape(l, l.cache["X"].shape)) ELSE None
    ELSE IF ~IsList(l.cache["in_dims"])
         THEN Some(Reshape(l.cache["in_dims"].shape,
                           FlattenTarget(l.keep_dim, l.cache["in_dims"].shape)))
         ELSE None

\* Upstream gradients: of the last output's shape when there is one (the
\* documented contract of backward), else any small gradient.
DLdYShapes(l) ==
    IF LastOutShape(l) # None THEN {LastOutShape(l)[1]}
    ELSE IF l.kind \in {"conv2d", "pool2d"}
    THEN {<<B, 1, 1, c>> : B \in Batches, c \in 1..MaxChan}
    ELSE {<<B, c>> : B \in Batches, c \in 1..MaxChan}

\* init_weights draws at random, and only when forward initializes.
Draws(l) == IF l.kind \in {"fully_connected", "conv2d"} /\ NeedsInit(l) THEN WeightVals ELSE {"r1"}

\* a parameter of the weighted layers, and a name no layer has.
ParamNames == {"W", "foo"}
\* Candidate values: of the parameter's own shape, or of another shape.
CandShapes(l, name) ==
    (IF name \in DOMAIN l.parameters THEN {l.parameters[name].shape} ELSE {})
    \cup {IF l.kind = "conv2d" /\ name = "W" THEN <<1, 1, 1, 1>> ELSE <<1, 1>>}

Construct ==
    /\ layer = NoLayer
    /\ \E name \in LayerNames \cup {"dense"}, n_out \in 1..MaxChan,
          k \in 1..MaxKernel, stride \in Strides,
          pad \in PadModes, mode \in PoolModes, keep_dim \in KeepDims :
          LET r == initialize_layer(name, n_out, <<k, k>>, stride, pad, mode, keep_dim)
          IN  /\ layer' = r.layer
              /\ ret' = r.ret
              /\ call' = Call("construct", name, NoTensor, NoTensor)
    /\ UNCHANGED <<forwardCalled, kern>>

CallForward ==
    /\ layer # NoLayer
    /\ \E Xs \in XShapes(layer.kind), w \in Draws(layer) :
          LET X == Tensor(Xs, "X")
              r == Forward(layer, X, w)
          IN  /\ layer' = r.layer
              /\ ret' = r.ret
              /\ call' = Call("forward", "none", X, NoTensor)
    /\ forwardCalled' = TRUE
    /\ UNCHANGED kern

CallBackward ==
    /\ layer # NoLayer
    /\ \E dYs \in DLdYShapes(layer) :
          LET r == Backward(layer, Tensor(dYs, "dLdY"))
          IN  /\ layer' = r.layer
              /\ ret' = r.ret
              /\ call' = Call("backward", "none", NoTensor, NoTensor)
    /\ UNCHANGED <<forwardCalled, kern>>

CallClearGradients ==
    /\ layer # NoLayer
    /\ LET r == clear_gradients(layer)
       IN  /\ layer' = r.layer
           /\ ret' = r.ret
           /\ call' = Call("clear_gradients", "none", NoTensor, NoTensor)
    /\ UNCHANGED <<forwardCalled, kern>>

CallForwardWithParam ==
    /\ layer # NoLayer
    /\ \E name \in ParamNames, Xs \in XShapes(layer.kind), w \in Draws(layer) :
       \E vs \in CandShapes(layer, name) :
          LET X == Tensor(Xs, "X")
              v == Tensor(vs, "v")
              r == inner_forward(layer, name, X, v, w)
          IN  /\ layer' = r.layer
              /\ ret' = r.ret
              /\ call' = Call("forward_with_param", name, X, v)
    /\ forwardCalled' = TRUE
    /\ UNCHANGED kern

NoKern == <<>>

Init ==
    /\ layer = NoLayer
    /\ call = NoCall
    /\ ret = NoRet
    /\ forwardCalled = FALSE
    /\ kern = NoKern

NextLife == Construct \/ CallForward \/ CallBackward \/ CallClearGradients

Next == Construct \/ CallForward \/ CallBackward \/ CallClearGradients
           \/ CallForwardWithParam

\* forward, backward and clear_gradients only.
SpecLife == Init /\ [][NextLife]_vars

\* every operation of the Layer interface.
Spec == Init /\ [][Next]_vars

(***************************************************************************)
(* Properties of the layer lifecycle.                                      *)
(***************************************************************************)
HasParams(l) == l.kind \in {"fully_connected", "conv2d"}
Channels(X) == X.shape[Len(X.shape)]
ParamShapes(l) ==
    IF l.kind = "fully_connected"
    THEN Dict2("W", <<l.n_in[1], l.n_out[1]>>, "b", <<1, l.n_out[1]>>)
    ELSE Dict2("W", l.kernel_shape \o <<l.n_in[1], l.n_out[1]>>, "b", <<1, l.n_out[1]>>)

\* C1: over forward, backward and clear_gradients calls on a FullyConnected or
\* Conv2D layer, W and b are initialized exactly once, by the first forward
\* call, with n_in taken from that call's input; no call before it sets
\* them, and every later call leaves n_in and the parameters (shapes and
\* values) as they were.
C1_Step ==
    HasParams(layer) =>
        /\ (layer.n_in = None /\ call'.op = "forward") =>
              /\ layer'.n_in = Some(Channels(call'.X))
              /\ DOMAIN layer'.parameters = {"W", "b"}
              /\ \A k \in {"W", "b"} : layer'.parameters[k].shape = ParamShapes(layer')[k]
        /\ (layer.n_in = None /\ call'.op # "forward") =>
              /\ layer'.n_in = None
              /\ layer'.parameters = EmptyDict
        /\ layer.n_in # None =>
              /\ layer'.n_in = layer.n_in
              /\ layer'.parameters = layer.parameters
        /\ forwardCalled' <=> layer'.n_in # None
C1_InitializedOnce == [][C1_Step]_vars

\* a forward call that returned after a backward call had stored gradients:
\* not the first forward call of the layer.
C1_Witness ==
    /\ HasParams(layer)
    /\ call.op = "forward"
    /\ ret.err = "none"
    /\ "W" \in DOMAIN layer.gradients
    /\ layer.gradients["W"].val = "dW"

\* C2: in every reachable state the keys of gradients are the keys of
\* parameters and each gradient has its parameter's shape.
C2_GradientsMatchParameters ==
    layer # NoLayer =>
        /\ DOMAIN layer.gradients = DOMAIN layer.parameters
        /\ \A k \in DOMAIN layer.gradients :
              layer.gradients[k].shape = layer.parameters[k].shape

\* C3: when the function returned by forward_with_param returns, forward ran
\* with the candidate value as parameters[name], and parameters[name] still is
\* the candidate value.
C3_SubstitutionUsedAndKept ==
    (call.op = "forward_with_param" /\ ret.err = "none") =>
        /\ call.name \in DOMAIN layer.parameters
        /\ layer.parameters[call.name] = call.v
        /\ (HasParams(layer) /\ call.name = "W") => ret.usedW = call.v.val
        /\ (HasParams(layer) /\ call.name = "b") => ret.usedb = call.v.val

\* C4: no forward call on a constructed layer fails because of the layer's
\* padding mode or pooling mode.
ConfigErrors ==
    {"ValueError: invalid Pad mode", "TypeError: pad is a string",
     "UnboundLocalError: pool_fn"}
C4_NoConfigErrorInForward ==
    call.op \in {"forward", "forward_with_param"} => ret.err \notin ConfigErrors

\* C5: backward on a layer on which forward has never been called raises, and
\* stores no gradients.
C5_BackwardBeforeForwardRaises ==
    (call.op = "backward" /\ ~forwardCalled) =>
        /\ ret.err # "none"
        /\ layer.gradients = EmptyDict

\* C6: a forward call on an initialized FullyConnected or Conv2D layer whose
\* input has a feature/channel count other than n_in raises.
C6_ChannelMismatchRaises ==
    (/\ call.op = "forward"
     /\ HasParams(layer)
     /\ layer.n_in # None
     /\ Channels(call.X) # layer.n_in[1]) => ret.err # "none"

(***************************************************************************)
(* The output size computed by Conv2D.forward, Conv2D.backward,             *)
(* Pool2D.forward and Pool2D.backward, for one spatial axis.                *)
(***************************************************************************)
MaxRows == 7
MaxKernelRows == 4
MaxDimStride == 3
MaxDimPad == 2

DimPadModes ==
    {PadMode("same", <<>>), PadMode("valid", <<>>)}
    \cup {PadMode("int", <<n>>) : n \in 0..MaxDimPad}

DimsFixed ==
    /\ layer = NoLayer
    /\ call = NoCall
    /\ ret = NoRet
    /\ forwardCalled = FALSE

\* a layer with its kernel, stride and resolved padding, an input of in_rows
\* rows, and the out_rows each of the four methods has computed so far.
DimsInit ==
    /\ DimsFixed
    /\ \E in_rows \in 1..MaxRows, kernel_height \in 1..MaxKernelRows,
          stride \in 1..MaxDimStride, pad \in DimPadModes :
          kern = [in_rows |-> in_rows, kernel_height |-> kernel_height, stride |-> stride,
                  mode |-> pad.kind,
                  pad |-> ResolvePad(pad, <<kernel_height, kernel_height>>).p[1],
                  conv_forward |-> None, conv_backward |-> None,
                  pool_forward |-> None, pool_backward |-> None]

OutRows(k) == OutSize(k.in_rows + 2 * k.pad - k.kernel_height, k.stride)

Conv2DForwardDims ==
    /\ kern.conv_forward = None
    /\ kern' = [kern EXCEPT !.conv_forward = Some(OutRows(kern))]
    /\ UNCHANGED <<layer, call, ret, forwardCalled>>

Conv2DBackwardDims ==
    /\ kern.conv_forward # None
    /\ kern.conv_backward = None
    /\ kern' = [kern EXCEPT !.conv_backward = Some(OutRows(kern))]
    /\ UNCHANGED <<layer, call, ret, forwardCalled>>

Pool2DForwardDims ==
    /\ kern.pool_forward = None
    /\ kern' = [kern EXCEPT !.pool_forward = Some(OutRows(kern))]
    /\ UNCHANGED <<layer, call, ret, forwardCalled>>

Pool2DBackwardDims ==
    /\ kern.pool_forward # None
    /\ kern.pool_backward = None
    /\ kern' = [kern EXCEPT !.pool_backward = Some(OutRows(kern))]
    /\ UNCHANGED <<layer, call, ret, forwardCalled>>

DimsNext == Conv2DForwardDims \/ Conv2DBackwardDims \/ Pool2DForwardDims
               \/ Pool2DBackwardDims

SpecDims == DimsInit /\ [][DimsNext]_vars

DimsComputed(k) ==
    {k.conv_forward, k.conv_backward, k.pool_forward, k.pool_backward} \ {None}
FloorFormula(k) == ((k.in_rows + 2 * k.pad - k.kernel_height) \div k.stride) + 1

Idx(shape) ==
    {<<n, i, j, c>> : n \in 0..(shape[1] - 1), i \in 0..(shape[2] - 1),
                      j \in 0..(shape[3] - 1), c \in 0..(shape[4] - 1)}
Arr(shape, f(_)) == [shape |-> shape, at |-> [x \in Idx(shape) |-> f(x)]]
NoArr == [shape |-> <<>>, at |-> <<>>]

\* np.zeros_like
ZerosLike(A) == [shape |-> A.shape, at |-> [x \in DOMAIN A.at |-> 0]]

\* np.pad(X, ((0,0), (p0,p0), (p1,p1), (0,0)), mode='constant')
NpPad(X, pad) ==
    LET shape == <<X.shape[1], X.shape[2] + 2 * pad[1], X.shape[3] + 2 * pad[2], X.shape[4]>>
        src(x) == <<x[1], x[2] - pad[1], x[3] - pad[2], x[4]>>
    IN  Arr(shape, LAMBDA x : IF src(x) \in DOMAIN X.at THEN X.at[src(x)] ELSE 0)

\* A[:, pad0 : in_rows + pad0, pad1 : in_cols + pad1, :]
Crop(A, pad, in_rows, in_cols) ==
    Arr(<<A.shape[1], in_rows, in_cols, A.shape[4]>>,
        LAMBDA x : A.at[<<x[1], x[2] + pad[1], x[3] + pad[2], x[4]>>])

\* The window at (row0, col0) of example n and channel c, flattened row by
\* row as reshape(n_examples, kernel_height * kernel_width, in_channels) does.
FlatWindow(A, n, c, row0, col0, kh, kw) ==
    [k \in 1..(kh * kw) |-> A.at[<<n, row0 + ((k - 1) \div kw), col0 + ((k - 1) % kw), c>>]]

\* np.max of a non-empty sequence.
RECURSIVE NpMax(_)
NpMax(s) ==
    IF Len(s) = 1 THEN s[1]
    ELSE LET m == NpMax(Tail(s)) IN IF s[1] >= m THEN s[1] ELSE m

\* np.argmax: the 0-based index of the first occurrence of the maximum.
RECURSIVE ArgMaxFrom(_, _, _)
ArgMaxFrom(s, k, best) ==
    IF k > Len(s) THEN best - 1
    ELSE ArgMaxFrom(s, k + 1, IF s[k] > s[best] THEN k ELSE best)
ArgMaxLast(s) == CHOOSE k \in 0..(Len(s) - 1) :
    /\ s[k + 1] = NpMax(s)
    /\ \A m \in (k + 1)..(Len(s) - 1) : s[m + 1] # NpMax(s)
NpArgMax(s) == ArgMaxFrom(s, 2, 1)

\* The (row, col) pairs in the order of "for row ...: for col ...:".
LoopOrder(out_rows, out_cols) ==
    [k \in 1..(out_rows * out_cols) |-> <<(k - 1) \div out_cols, (k - 1) % out_cols>>]

(***************************************************************************)
(* Pool2D in "max" mode on numbers.                                        *)
(***************************************************************************)
Pool2DMaxForward(X, kernel_shape, stride, pad) ==
    LET out_rows == OutSize(X.shape[2] + 2 * pad[1] - kernel_shape[1], stride)
        out_cols == OutSize(X.shape[3] + 2 * pad[2] - kernel_shape[2], stride)
        X_pad == NpPad(X, pad)
    IN  Arr(<<X.shape[1], out_rows, out_cols, X.shape[4]>>,
            LAMBDA y : NpMax(FlatWindow(X_pad, y[1], y[4], y[2] * stride, y[3] * stride,
                                        kernel_shape[1], kernel_shape[2])))

\* One step of the loop of backward: the mask of the window's argmax times
\* dLdY[:, row, col, :], added to the window of dX.
Pool2DMaxBackwardStep(dX, X_pad, dLdY, kernel_shape, stride, row, col) ==
    LET kh == kernel_shape[1]
        kw == kernel_shape[2]
        row0 == row * stride
        col0 == col * stride
        max_id(n, c) == NpArgMax(FlatWindow(X_pad, n, c, row0, col0, kh, kw))
        inWindow(x) == /\ x[2] \in row0..(row0 + kh - 1)
                       /\ x[3] \in col0..(col0 + kw - 1)
        x_mask(x) == IF (x[2] - row0) * kw + (x[3] - col0) = max_id(x[1], x[4])
                     THEN 1 ELSE 0
    IN  [dX EXCEPT !.at = [x \in DOMAIN dX.at |->
            IF inWindow(x) THEN dX.at[x] + x_mask(x) * dLdY.at[<<x[1], row, col, x[4]>>]
            ELSE dX.at[x]]]

RECURSIVE Pool2DMaxBackwardLoop(_, _, _, _, _, _)
Pool2DMaxBackwardLoop(dX, X_pad, dLdY, kernel_shape, stride, todo) ==
    IF todo = <<>> THEN dX
    ELSE Pool2DMaxBackwardLoop(
             Pool2DMaxBackwardStep(dX, X_pad, dLdY, kernel_shape, stride,
                                   todo[1][1], todo[1][2]),
             X_pad, dLdY, kernel_shape, stride, Tail(todo))

\* dX before the crop.
Pool2DMaxBackwardPadded(X, dLdY, kernel_shape, stride, pad) ==
    LET out_rows == OutSize(X.shape[2] + 2 * pad[1] - kernel_shape[1], stride)
        out_cols == OutSize(X.shape[3] + 2 * pad[2] - kernel_shape[2], stride)
        X_pad == NpPad(X, pad)
    IN  Pool2DMaxBackwardLoop(ZerosLike(X_pad), X_pad, dLdY, kernel_shape, stride,
                              LoopOrder(out_rows, out_cols))

Pool2DMaxBackward(X, dLdY, kernel_shape, stride, pad) ==
    Crop(Pool2DMaxBackwardPadded(X, dLdY, kernel_shape, stride, pad),
         pad, X.shape[2], X.shape[3])

MaxPoolSide == 2
MaxPoolKernel == 2

\* Inputs: every grid of -1 and 1, of up to MaxPoolSide rows and one or two
\* columns, as example 0 / channel 0 of two examples of two channels, the odd
\* examples and channels holding the negated grid; and the window
\* [[1,3],[2,0]].  Kernels have up to MaxPoolKernel rows and one or two columns.
PoolCols == {1, 2}
PoolInputsOf(h, w, bc) ==
    {Arr(<<bc, h, w, bc>>,
         LAMBDA x : IF (x[1] + x[4]) % 2 = 0 THEN g[<<x[2], x[3]>>] ELSE -g[<<x[2], x[3]>>]) :
        g \in [(0..(h - 1)) \X (0..(w - 1)) -> {-1, 1}]}
PoolInputs ==
    UNION {PoolInputsOf(h, w, 2) : h \in 1..MaxPoolSide, w \in PoolCols}
PoolPadModes == {PadMode("same", <<>>), PadMode("valid", <<>>), PadMode("int", <<1>>)}
ExampleWindow ==
    Arr(<<1, 2, 2, 1>>,
        LAMBDA x : IF x[2] = 0 THEN (IF x[3] = 0 THEN 1 ELSE 3)
                   ELSE (IF x[3] = 0 THEN 2 ELSE 0))

PoolInit ==
    /\ DimsFixed
    /\ \E X \in PoolInputs \cup {ExampleWindow},
          kh \in 1..MaxPoolKernel, kw \in PoolCols,
          stride \in Strides, pad \in PoolPadModes :
          kern = [phase |-> "new", X |-> X, kernel_shape |-> <<kh, kw>>, stride |-> stride,
                  pad |-> ResolvePad(pad, <<kh, kw>>).p, Y |-> NoArr, dLdY |-> NoArr, dX_pad |-> NoArr,
                  dX |-> NoArr]

PoolOutShape(k) ==
    <<k.X.shape[1],
      OutSize(k.X.shape[2] + 2 * k.pad[1] - k.kernel_shape[1], k.stride),
      OutSize(k.X.shape[3] + 2 * k.pad[2] - k.kernel_shape[2], k.stride),
      k.X.shape[4]>>

\* forward; np.zeros raises on a negative out_rows or out_cols.
PoolForward ==
    /\ kern.phase = "new"
    /\ IF PoolOutShape(kern)[2] < 0 \/ PoolOutShape(kern)[3] < 0
       THEN kern' = [kern EXCEPT !.phase = "raised"]
       ELSE kern' = [kern EXCEPT !.phase = "forwarded",
                        !.Y = Pool2DMaxForward(kern.X, kern.kernel_shape, kern.stride, kern.pad)]
    /\ UNCHANGED <<layer, call, ret, forwardCalled>>

\* Upstream gradients of the output's shape: 5 everywhere, or all different.
Ravel(shape, x) == ((x[1] * shape[2] + x[2]) * shape[3] + x[3]) * shape[4] + x[4]
Upstream(shape) ==
    {Arr(shape, LAMBDA x : 5), Arr(shape, LAMBDA x : 1 + Ravel(shape, x))}

PoolBackward ==
    /\ kern.phase = "forwarded"
    /\ \E dLdY \in Upstream(kern.Y.shape) :
          LET dX_pad == Pool2DMaxBackwardPadded(kern.X, dLdY, kern.kernel_shape,
                                                kern.stride, kern.pad)
          IN  kern' = [kern EXCEPT
                         !.phase = "done",
                         !.dLdY = dLdY,
                         !.dX_pad = dX_pad,
                         !.dX = Pool2DMaxBackward(kern.X, dLdY, kern.kernel_shape,
                                                  kern.stride, kern.pad)]
    /\ UNCHANGED <<layer, call, ret, forwardCalled>>

PoolNext == PoolForward \/ PoolBackward

SpecPool == PoolInit /\ [][PoolNext]_vars

RECURSIVE SumFn(_)
SumFn(f) ==
    IF DOMAIN f = {} THEN 0
    ELSE LET x == CHOOSE x \in DOMAIN f : TRUE
         IN  f[x] + SumFn([y \in DOMAIN f \ {x} |-> f[y]])

\* The zero-padded input and the cells of the window of output (r, c).
PaddedAt(k, n, i, j, c) ==
    LET x == <<n, i - k.pad[1], j - k.pad[2], c>>
    IN  IF x \in DOMAIN k.X.at THEN k.X.at[x] ELSE 0
WindowCells(k, r, c) ==
    {<<r * k.stride + a, c * k.stride + b>> :
        a \in 0..(k.kernel_shape[1] - 1), b \in 0..(k.kernel_shape[2] - 1)}
Before(p, q) == p[1] < q[1] \/ (p[1] = q[1] /\ p[2] < q[2])
\* p is the first cell, row by row, of window (r, c) holding its maximum.
IsFirstMax(k, n, ch, r, c, p) ==
    /\ p \in WindowCells(k, r, c)
    /\ \A q \in WindowCells(k, r, c) :
          /\ PaddedAt(k, n, q[1], q[2], ch) <= PaddedAt(k, n, p[1], p[2], ch)
          /\ Before(q, p) => PaddedAt(k, n, q[1], q[2], ch) < PaddedAt(k, n, p[1], p[2], ch)
\* the output positions whose whole gradient goes to padded cell p.
Routed(k, n, ch, p) ==
    {rc \in (0..(k.Y.shape[2] - 1)) \X (0..(k.Y.shape[3] - 1)) :
        IsFirstMax(k, n, ch, rc[1], rc[2], p)}

\* C7: Pool2D in max mode.  forward outputs the maximum of each zero-padded
\* window; backward gives every padded cell the sum of dLdY over the output
\* positions of which it is the first cell, row by row, holding the window's
\* maximum, and nothing else, and returns that cropped by the padding; for the
\* window [[1,3],[2,0]] forward gives 3 and backward of 5 gives [[0,5],[0,0]].
C7_MaxPoolRoutesToFirstMax ==
    /\ kern.phase \in {"forwarded", "done"} =>
          \A y \in DOMAIN kern.Y.at :
             /\ \E p \in WindowCells(kern, y[2], y[3]) :
                   kern.Y.at[y] = PaddedAt(kern, y[1], p[1], p[2], y[4])
             /\ \A p \in WindowCells(kern, y[2], y[3]) :
                   kern.Y.at[y] >= PaddedAt(kern, y[1], p[1], p[2], y[4])
    /\ kern.phase = "done" =>
          /\ kern.dX_pad.shape = <<kern.X.shape[1], kern.X.shape[2] + 2 * kern.pad[1],
                                   kern.X.shape[3] + 2 * kern.pad[2], kern.X.shape[4]>>
          /\ \A x \in DOMAIN kern.dX_pad.at :
                kern.dX_pad.at[x] =
                   SumFn([rc \in Routed(kern, x[1], x[4], <<x[2], x[3]>>) |->
                             kern.dLdY.at[<<x[1], rc[1], rc[2], x[4]>>]])
          /\ kern.dX.shape = kern.X.shape
          /\ \A x \in DOMAIN kern.dX.at :
                kern.dX.at[x] =
                   kern.dX_pad.at[<<x[1], x[2] + kern.pad[1], x[3] + kern.pad[2], x[4]>>]
    /\ (/\ kern.X = ExampleWindow /\ kern.kernel_shape = <<2, 2>> /\ kern.pad = <<0, 0>>
        /\ kern.phase \in {"forwarded", "done"}) =>
          /\ kern.Y.at[<<0, 0, 0, 0>>] = 3
          /\ (kern.phase = "done" /\ kern.dLdY.at[<<0, 0, 0, 0>>] = 5) =>
                /\ kern.dX.at[<<0, 0, 1, 0>>] = 5
                /\ \A x \in DOMAIN kern.dX.at \ {<<0, 0, 1, 0>>} : kern.dX.at[x] = 0

\* overlapping windows with a tie: a padded cell that is the first maximum of
\* two output positions, one of whose windows holds the maximum twice.
C7_Witness ==
    /\ kern.phase = "done"
    /\ kern.stride < kern.kernel_shape[1]
    /\ \E x \in DOMAIN kern.dX_pad.at :
          /\ Cardinality(Routed(kern, x[1], x[4], <<x[2], x[3]>>)) >= 2
          /\ \E rc \in Routed(kern, x[1], x[4], <<x[2], x[3]>>) :
             \E q \in WindowCells(kern, rc[1], rc[2]) \ {<<x[2], x[3]>>} :
                PaddedAt(kern, x[1], q[1], q[2], x[4]) = PaddedAt(kern, x[1], x[2], x[3], x[4])

(***************************************************************************)
(* Conv2D.backward on numbers, with the identity activation (dZ = dLdY).   *)
(***************************************************************************)
\* One step of the loop: for one output position and output channel, the
\* kernel slice times dZ is added to the window of dX_pad, and the window of
\* X_pad times dZ, summed over the examples, to the channel's slice of dW.
Conv2DBackwardStepAssign(g, X_pad, W, dZ, stride, row, col, channel) ==
    LET row0 == row * stride
        col0 == col * stride
        inWindow(x) == /\ x[2] \in row0..(row0 + W.shape[1] - 1)
                       /\ x[3] \in col0..(col0 + W.shape[2] - 1)
    IN  [dX_pad |-> [g.dX_pad EXCEPT !.at = [x \in DOMAIN g.dX_pad.at |->
                        IF inWindow(x)
                        THEN W.at[<<x[2] - row0, x[3] - col0, x[4], channel>>]
                                * dZ.at[<<x[1], row, col, channel>>]
                        ELSE g.dX_pad.at[x]]],
         dW |-> g.dW]
Conv2DBackwardStep(g, X_pad, W, dZ, stride, row, col, channel) ==
    LET row0 == row * stride
        col0 == col * stride
        inWindow(x) == /\ x[2] \in row0..(row0 + W.shape[1] - 1)
                       /\ x[3] \in col0..(col0 + W.shape[2] - 1)
    IN  [dX_pad |-> [g.dX_pad EXCEPT !.at = [x \in DOMAIN g.dX_pad.at |->
                        IF inWindow(x)
                        THEN g.dX_pad.at[x]
                             + W.at[<<x[2] - row0, x[3] - col0, x[4], channel>>]
                                  * dZ.at[<<x[1], row, col, channel>>]
                        ELSE g.dX_pad.at[x]]],
         dW |-> [g.dW EXCEPT !.at = [w \in DOMAIN g.dW.at |->
                        IF w[4] = channel
                        THEN g.dW.at[w]
                             + SumFn([n \in 0..(X_pad.shape[1] - 1) |->
                                        X_pad.at[<<n, row0 + w[1], col0 + w[2], w[3]>>]
                                           * dZ.at[<<n, row, col, channel>>]])
                        ELSE g.dW.at[w]]]]

\* "for row: for col: for channel:" as the sequence of its steps.
Conv2DLoopOrder(out_rows, out_cols, out_channels) ==
    [k \in 1..(out_rows * out_cols * out_channels) |->
        <<(k - 1) \div (out_cols * out_channels),
          ((k - 1) \div out_channels) % out_cols,
          (k - 1) % out_channels>>]

RECURSIVE Conv2DBackwardLoop(_, _, _, _, _, _)
Conv2DBackwardLoop(g, X_pad, W, dZ, stride, todo) ==
    IF todo = <<>> THEN g
    ELSE Conv2DBackwardLoop(
             Conv2DBackwardStep(g, X_pad, W, dZ, stride, todo[1][1], todo[1][2], todo[1][3]),
             X_pad, W, dZ, stride, Tail(todo))

\* backward: dX_pad and dW after the loop, dB, and the returned dX.
Conv2DCrop(A, pad, in_rows, in_cols) == Crop(A, pad, in_rows, in_cols)

Conv2DBackwardNum(X, W, dZ, stride, pad) ==
    LET out_rows == OutSize(X.shape[2] + 2 * pad[1] - W.shape[1], stride)
        out_cols == OutSize(X.shape[3] + 2 * pad[2] - W.shape[2], stride)
        X_pad == NpPad(X, pad)
        g == Conv2DBackwardLoop([dX_pad |-> ZerosLike(X_pad), dW |-> ZerosLike(W)],
                                X_pad, W, dZ, stride,
                                Conv2DLoopOrder(out_rows, out_cols, W.shape[4]))
        dB == [c \in 0..(W.shape[4] - 1) |->
                  SumFn([z \in {z \in DOMAIN dZ.at : z[4] = c} |-> dZ.at[z]])]
    IN  [dX_pad |-> g.dX_pad, dW |-> g.dW, dB |-> dB,
         dX |-> Conv2DCrop(g.dX_pad, pad, X.shape[2], X.shape[3])]

MaxConvSide == 2
MaxConvKernel == 2
ConvChans == {1, 2}

ConvPadModes == {PadMode("same", <<>>), PadMode("valid", <<>>), PadMode("int", <<1>>)}

\* Values: all different, or all different with alternating signs.
Signed(k) == IF k % 2 = 0 THEN 2 + k ELSE -(1 + k)
Fill(shape) ==
    {Arr(shape, LAMBDA x : 1 + Ravel(shape, x)),
     Arr(shape, LAMBDA x : Signed(Ravel(shape, x)))}

\* The layer after a forward call that returned: X cached, W, stride and the
\* resolved padding.
ConvInit ==
    /\ DimsFixed
    /\ \E B \in Batches, h \in 1..MaxConvSide, w \in 1..MaxConvSide,
          n_in \in ConvChans, n_out \in ConvChans,
          kh \in 1..MaxConvKernel, kw \in 1..MaxConvKernel,
          stride \in Strides, pm \in ConvPadModes :
          LET pad == ResolvePad(pm, <<kh, kw>>).p
              out_rows == OutSize(h + 2 * pad[1] - kh, stride)
              out_cols == OutSize(w + 2 * pad[2] - kw, stride)
          IN  /\ out_rows >= 0
              /\ out_cols >= 0
              /\ \E W \in {Arr(<<kh, kw, n_in, n_out>>,
                                  LAMBDA x : Signed(Ravel(<<kh, kw, n_in, n_out>>, x)))} :
                    kern = [phase |-> "forwarded",
                            X |-> Arr(<<B, h, w, n_in>>, LAMBDA x : 1 + Ravel(<<B, h, w, n_in>>, x)),
                            W |-> W, stride |-> stride, pad |-> pad,
                            out |-> <<B, out_rows, out_cols, n_out>>,
                            dZ |-> NoArr, dX_pad |-> NoArr, dW |-> NoArr, dB |-> <<>>,
                            dX |-> NoArr]

ConvBackward ==
    /\ kern.phase = "forwarded"
    /\ \E dZ \in Fill(kern.out) :
          LET r == Conv2DBackwardNum(kern.X, kern.W, dZ, kern.stride, kern.pad)
          IN  kern' = [kern EXCEPT !.phase = "done", !.dZ = dZ, !.dX_pad = r.dX_pad,
                                   !.dW = r.dW, !.dB = r.dB, !.dX = r.dX]
    /\ UNCHANGED <<layer, call, ret, forwardCalled>>

SpecConv == ConvInit /\ [][ConvBackward]_vars

\* The output positions (row, col) whose receptive field holds padded cell
\* (i, j), with the cell's offset in the window.
Covering(k, i, j) ==
    {rc \in (0..(k.out[2] - 1)) \X (0..(k.out[3] - 1)) :
        /\ i - rc[1] * k.stride \in 0..(k.W.shape[1] - 1)
        /\ j - rc[2] * k.stride \in 0..(k.W.shape[2] - 1)}

\* C9: after Conv2D.backward with the identity activation, every cell of the
\* padded input gradient is the sum, over the output positions whose
\* receptive field holds it and over the output channels, of the kernel
\* weight at the cell's offset times dZ there; the returned dX is that
\* gradient cropped by the pad offsets and has the shape of the cached X.
C9_InputGradientIsScatterSum ==
    kern.phase = "done" =>
        /\ \A x \in DOMAIN kern.dX_pad.at :
              kern.dX_pad.at[x] =
                 SumFn([t \in Covering(kern, x[2], x[3]) \X (0..(kern.W.shape[4] - 1)) |->
                          kern.W.at[<<x[2] - t[1][1] * kern.stride,
                                      x[3] - t[1][2] * kern.stride, x[4], t[2]>>]
                             * kern.dZ.at[<<x[1], t[1][1], t[1][2], t[2]>>]])
        /\ kern.dX.shape = kern.X.shape
        /\ \A x \in Idx(kern.X.shape) :
              kern.dX.at[x] =
                 kern.dX_pad.at[<<x[1], x[2] + kern.pad[1], x[3] + kern.pad[2], x[4]>>]

\* stride < kernel size with padding: a padded cell inside the input that two
\* receptive fields hold.
C9_Witness ==
    /\ kern.phase = "done"
    /\ kern.pad[1] > 0
    /\ kern.stride < kern.W.shape[1]
    /\ kern.W.shape[4] > 1
    /\ \E x \in DOMAIN kern.dX_pad.at :
          /\ Cardinality(Covering(kern, x[2], x[3])) >= 2
          /\ kern.dX_pad.at[x] # 0

(***************************************************************************)
(* Flatten on arrays of any rank, stored by index tuple.                   *)
(***************************************************************************)
RECURSIVE IdxN(_)
IdxN(shape) ==
    IF shape = <<>> THEN {<<>>}
    ELSE {<<i>> \o t : i \in 0..(shape[1] - 1), t \in IdxN(Tail(shape))}

\* The position of index tuple x in row-major (C) order, and back.
RECURSIVE RavelN(_, _)
RavelN(shape, x) ==
    IF shape = <<>> THEN 0
    ELSE x[1] * Prod(Tail(shape)) + RavelN(Tail(shape), Tail(x))
RECURSIVE UnravelN(_, _)
UnravelN(shape, k) ==
    IF shape = <<>> THEN <<>>
    ELSE <<k \div Prod(Tail(shape))>> \o UnravelN(Tail(shape), k % Prod(Tail(shape)))

ArrN(shape, f(_)) == [shape |-> shape, at |-> [x \in IdxN(shape) |-> f(x)]]

\* A.reshape(target): the elements keep their row-major order.
NpReshape(A, target) ==
    LET shape == Reshape(A.shape, target)
    IN  IF shape = BadShape THEN NoArr
        ELSE ArrN(shape, LAMBDA y : A.at[UnravelN(A.shape, RavelN(shape, y))])

\* forward: the cached in_dims and the value returned.
FlattenForwardNum(keep_dim, in_dims, X) ==
    [in_dims |-> FlattenCache(in_dims, X.shape),
     out |-> IF keep_dim = "-1"
             THEN NpReshape(NpReshape(X, <<-1>>), <<1, -1>>)
             ELSE NpReshape(X, FlattenTarget(keep_dim, X.shape))]

FlattenBackwardNum(in_dims, dLdY) == NpReshape(dLdY, in_dims)

MaxFlatDim == 2
FlatRanks == 1..4
RECURSIVE ShapesOfRank(_)
ShapesOfRank(r) ==
    IF r = 0 THEN {<<>>}
    ELSE {<<d>> \o t : d \in 1..MaxFlatDim, t \in ShapesOfRank(r - 1)}
\* a batch axis and up to three more.
FlatShapes == UNION {{<<B>> \o t : B \in Batches, t \in ShapesOfRank(r - 1)} : r \in FlatRanks}

FlatInit ==
    /\ DimsFixed
    /\ \E keep_dim \in KeepDims :
          kern = [phase |-> "new", keep_dim |-> keep_dim, in_dims |-> <<>>,
                  X |-> NoArr, Y |-> NoArr, dLdY |-> NoArr, dX |-> NoArr,
                  again |-> FALSE]

FlatForward ==
    /\ \E shape \in FlatShapes :
          LET X == ArrN(shape, LAMBDA x : 1 + RavelN(shape, x))
              r == FlattenForwardNum(kern.keep_dim, kern.in_dims, X)
          IN  kern' = [kern EXCEPT
                         !.phase = IF r.out = NoArr THEN "raised" ELSE "forwarded",
                         !.in_dims = r.in_dims, !.X = X, !.Y = r.out,
                         !.dLdY = NoArr, !.dX = NoArr,
                         !.again = kern.phase # "new" /\ kern.X.shape # shape]
    /\ UNCHANGED <<layer, call, ret, forwardCalled>>

\* dLdY of the forward output's shape: the output itself, or its negation.
FlatBackward ==
    /\ kern.phase \in {"forwarded", "done"}
    /\ \E sign \in {1, -1} :
          LET dLdY == ArrN(kern.Y.shape, LAMBDA y : sign * kern.Y.at[y])
              dX == FlattenBackwardNum(kern.in_dims, dLdY)
          IN  kern' = [kern EXCEPT
                         !.phase = IF dX = NoArr THEN "raised" ELSE "done",
                         !.dLdY = dLdY, !.dX = dX]
    /\ UNCHANGED <<layer, call, ret, forwardCalled>>

FlatNext == FlatForward \/ FlatBackward

SpecFlat == FlatInit /\ [][FlatNext]_vars

\* The elements of an array in row-major order.
RowMajor(A) == [k \in 1..Prod(A.shape) |-> A.at[UnravelN(A.shape, k - 1)]]

\* C8: Flatten.  For every input shape and keep_dim in {"first", "last", -1},
\* forward returns a matrix with the input's number of elements, and a
\* following backward of a dLdY of the output's shape returns a tensor of the
\* shape of the most recent forward call's input, with dLdY's elements in the
\* same row-major order; neither raises.
C8_FlattenRoundTrip ==
    /\ kern.phase # "raised"
    /\ kern.phase \in {"forwarded", "done"} =>
          /\ Len(kern.Y.shape) = 2
          /\ Prod(kern.Y.shape) = Prod(kern.X.shape)
          /\ kern.keep_dim = "-1" => kern.Y.shape[1] = 1
          /\ kern.keep_dim = "first" => kern.Y.shape[1] = kern.X.shape[1]
          /\ kern.keep_dim = "last" => kern.Y.shape[2] = kern.X.shape[Len(kern.X.shape)]
    /\ kern.phase = "done" =>
          /\ kern.dX.shape = kern.X.shape
          /\ RowMajor(kern.dX) = RowMajor(kern.dLdY)

\* backward after a second forward call with an input of another shape.
C8_Witness ==
    /\ kern.phase = "done"
    /\ kern.again
    /\ Len(kern.X.shape) = 4
    /\ Prod(kern.X.shape) > 2
    /\ kern.keep_dim = "last"

====
